---- MODULE Spec2Model ----
(***************************************************************************)
(* Model of the metrics recalculation of the statements endpoint           *)
(* (src/src/endpoints/gemini.ts, calculateFinancialMetrics).               *)
(*                                                                         *)
(* Numbers.  A JavaScript number is modelled as an integer count of        *)
(* thousandths (Scale = 1000): -15500 is -15.5, 10 is 0.01, 100000 is 100. *)
(* Amounts therefore carry up to three fractional digits, one more than    *)
(* toFixed(2) keeps.  A number that may be NaN or infinite (a percentage)  *)
(* is a record [kind, value].                                              *)
(*                                                                         *)
(* Fields.  The function reads currency, transactions[i].amount, .category  *)
(* and .emoji, and possibleSubscriptions[i].amount; `period`, dates and     *)
(* descriptions are carried through the copy untouched and are left out.   *)
(*                                                                         *)
(* Objects.  A period object is a record of its fields together with the   *)
(* set `own` of the names of the properties it has; a field whose name is  *)
(* not in `own` holds a default.  Objects live in `heap` and are reached   *)
(* by reference, so that writing through one reference is seen through     *)
(* every other reference to the same object.                               *)
(***************************************************************************)
EXTENDS Integers, Sequences, FiniteSets, TLC

VARIABLES
    heap,           \* reference -> period object: "arg" the caller's, "copy" the function's
    periodData,     \* the argument of the call: undefined, null or a reference
    given,          \* the caller's object as it was when the call was made
    result,         \* what the call returned: pending, null or a reference
    builtinsWithAmount, \* the inherited names whose built-in object has got an `amount`
    pc,             \* "ready", "returned", "edited", "repeated"
    calls,          \* the calls made so far: whose object, and what came back
    request,        \* the HTTP request: its method and the `files` entries of its form
    hpc,            \* where GeminiProcess.handle stands; "idle" without a request
    entryIndex,     \* the entry of fileEntries the upload loop is at
    uploadedFiles,  \* the number of files pushed to uploadedFiles
    events,         \* the external steps taken so far, each with its outcome
    raw,            \* rawAnalysisData: what the model's text parsed to
    responses       \* the responses returned for the request

\* the caller of the function alone
fvars == <<periodData, given, result, pc, calls>>

\* GeminiProcess.handle
hvars == <<request, hpc, entryIndex, uploadedFiles, events, raw, responses>>

vars == <<heap, builtinsWithAmount, fvars, hvars>>

----------------------------------------------------------------------------
(* Bounds and the inputs drawn from them *)

\* Len(transactions) + Len(possibleSubscriptions) of an input is at most MaxItems.
MaxItems == 2

\* three fractional digits: one more than the two toFixed(2) keeps
Scale == 10 * 10 * 10

\* -1, -0.006 (rounds up to a cent), -0.004 (rounds down to nothing), 0, +2.
\* All amounts are even thousandths, so no sum of them lies halfway between
\* two cents, where toFixed(2) goes by the binary value of the number.
Amounts == {-1000, -6, -4, 0, 2000}

\* an ordinary name, a name that is a canonical array index, and a name that
\* every object inherits from Object.prototype
Categories == {"Food", "10", "constructor"}

Emojis == {"burger", "house"}

Currencies == {"$", "EUR"}

\* An element of `transactions` is an object or, when malformed, null.
Transaction ==
    [kind : {"object"}, amount : Amounts, category : Categories, emoji : Emojis]

\* A null where a transaction should be.
NullElement == [kind |-> "null", amount |-> 0, category |-> "", emoji |-> ""]

\* A spend transaction without category and emoji: reading either gives
\* undefined, which as a property key is the name "undefined".
BareTransaction ==
    [kind |-> "object", amount |-> -1000, category |-> "undefined",
     emoji |-> "undefined"]

SubscriptionCandidate ==
    { [name |-> "Netflix", amount |-> -15500, emoji |-> "tv"],
      [name |-> "Spotify", amount |-> -9990, emoji |-> "music"],
      [name |-> "Refund", amount |-> 4996, emoji |-> "money"] }

SeqsUpTo(S, n) == UNION { [1..k -> S] : k \in 0..n }

\* what `transactions` may hold besides a sequence
NonArrayKinds == {"undefined", "null", "string", "object"}

NoSubscriptions == [count |-> 0, total |-> 0, list |-> <<>>]

\* An object with no properties.
EmptyObject ==
    [own |-> {}, currency |-> "",
     transactions |-> [kind |-> "undefined", items |-> <<>>],
     possibleSubscriptions |-> <<>>, possibleSubscriptionsKind |-> "array",
     totalSpend |-> 0, formattedTotal |-> "",
     categoryBreakdown |-> <<>>, subscriptions |-> NoSubscriptions]

\* The period object {currency, transactions, possibleSubscriptions}; kind
\* "undefined" stands for a missing `transactions`, hasSubs = FALSE for a
\* missing `possibleSubscriptions`.  possibleSubscriptionsKind tells what the
\* property holds: a sequence ("array"), or null, a string or a plain object.
PeriodObject(currency, kind, items, hasSubs, subs) ==
    [EmptyObject EXCEPT
        !.own = {"currency"}
                \cup (IF kind = "undefined" THEN {} ELSE {"transactions"})
                \cup (IF hasSubs THEN {"possibleSubscriptions"} ELSE {}),
        !.currency = currency,
        !.transactions = [kind |-> kind, items |-> items],
        !.possibleSubscriptions = subs]

----------------------------------------------------------------------------
(* Number formatting *)

Abs(x) == IF x < 0 THEN -x ELSE x

\* (num/den).toFixed(2) for num >= 0, den > 0: the decimal text with two
\* fractional digits nearest to the value, the larger one on a tie; the text
\* "whole.frac" is kept as its two parts.
ToFixed2Quot(num, den) ==
    LET n == (2 * num * 100 + den) \div (2 * den)
    IN  [whole |-> n \div 100, frac |-> n % 100]

\* x.toFixed(2) for a number x >= 0 (in thousandths)
ToFixed2(x) == ToFixed2Quot(x, Scale)

\* A rendering that drops the leading zero of the fraction.
DecimalTextUnpadded(d) == ToString(d.whole) \o "." \o ToString(d.frac)

\* The characters of a toFixed(2) text.
DecimalText(d) ==
    ToString(d.whole) \o "." \o ToString(d.frac \div 10) \o ToString(d.frac % 10)

\* parseFloat of a toFixed(2) text, in thousandths
ParseFloat(d) == (d.whole * 100 + d.frac) * (Scale \div 100)

----------------------------------------------------------------------------
(* calculateFinancialMetrics, piece by piece *)

Truthy(v) == v.kind \notin {"undefined", "null"}

\* A test for something with a length, in place of Array.isArray.
IsArrayLike(v) == v.kind \in {"array", "string"}

\* Array.isArray(v)
IsArray(v) == v.kind = "array"

\* JSON.parse(JSON.stringify(o)): a structure rebuilt from the text of o, which
\* holds o's own properties and, of each transaction and candidate, its fields.
JsonClone(o) ==
    [own |-> o.own,
     currency |-> o.currency,
     transactions |->
        [kind |-> o.transactions.kind,
         items |-> [i \in 1..Len(o.transactions.items) |->
                      [kind |-> o.transactions.items[i].kind,
                       amount |-> o.transactions.items[i].amount,
                       category |-> o.transactions.items[i].category,
                       emoji |-> o.transactions.items[i].emoji]]],
     possibleSubscriptions |->
        [i \in 1..Len(o.possibleSubscriptions) |->
            [name |-> o.possibleSubscriptions[i].name,
             amount |-> o.possibleSubscriptions[i].amount,
             emoji |-> o.possibleSubscriptions[i].emoji]],
     possibleSubscriptionsKind |-> o.possibleSubscriptionsKind,
     totalSpend |-> o.totalSpend,
     formattedTotal |-> o.formattedTotal,
     categoryBreakdown |-> o.categoryBreakdown,
     subscriptions |-> o.subscriptions]

\* `result` bound to the argument itself, with no copy made.
SameRef(argRef) == argRef

\* The object `result` refers to: a new one, whatever the argument refers to
\* ("copy" for the caller's "arg", "<name>Copy" for any other object).
ResultRef(argRef) == IF argRef = "arg" THEN "copy" ELSE argRef \o "Copy"

\* A filter that keeps income as well.
IsNonZero(t) == t.amount # 0

\* A filter that keeps transactions of amount 0 as well.
IsNotIncome(t) == t.amount <= 0

\* t => t.amount < 0
IsSpend(t) == t.amount < 0

\* seq.reduce((sum, x) => sum + Math.abs(x.amount), 0)
RECURSIVE SumAbs(_)
SumAbs(seq) ==
    IF seq = <<>> THEN 0
    ELSE SumAbs(SubSeq(seq, 1, Len(seq) - 1)) + Abs(seq[Len(seq)].amount)

\* `${result.currency}${result.totalSpend.toFixed(2)}`
FormattedTotal(o, totalSpend) ==
    (IF "currency" \in o.own THEN o.currency ELSE "undefined")
        \o DecimalText(ToFixed2(totalSpend))

----------------------------------------------------------------------------
(* The category map: const categories = {} *)

\* Property names every object literal inherits from Object.prototype, each
\* holding an object (a function, or the prototype itself).
ObjectPrototypeProps ==
    {"constructor", "toString", "valueOf", "hasOwnProperty", "isPrototypeOf",
     "propertyIsEnumerable", "toLocaleString", "__proto__"}

\* Property names that are canonical array indices, with their values.
ArrayIndexKeys == {"10"}

KeyIndex(name) == CASE name = "10" -> 10 [] OTHER -> 0

\* The map is kept as the sequence of its own entries in insertion order.
HasOwnEntry(entries, name) == \E i \in 1..Len(entries) : entries[i].name = name

\* categories[name] is truthy: an own entry, or an inherited property
HasCategory(entries, name) ==
    HasOwnEntry(entries, name) \/ name \in ObjectPrototypeProps

\* A round that takes the emoji of every transaction of the category.
AddTransactionLastEmoji(acc, transaction) ==
    LET category == transaction.category
        created ==
            IF ~HasCategory(acc.own, category)
            THEN Append(acc.own, [name |-> category, amount |-> 0,
                                  emoji |-> transaction.emoji])
            ELSE acc.own
    IN  IF HasOwnEntry(created, category)
        THEN [own |-> [i \in 1..Len(created) |->
                        IF created[i].name = category
                        THEN [created[i] EXCEPT
                                !.amount = @ + Abs(transaction.amount),
                                !.emoji = transaction.emoji]
                        ELSE created[i]],
              inherited |-> acc.inherited]
        ELSE [own |-> created, inherited |-> acc.inherited \cup {category}]

\* One round of the forEach over the spend transactions.  The map is acc.own;
\* acc.inherited holds the inherited names whose object was given an `amount`.
AddTransaction(acc, transaction) ==
    LET category == transaction.category
        created ==
            IF ~HasCategory(acc.own, category)
            THEN Append(acc.own, [name |-> category, amount |-> 0,
                                  emoji |-> transaction.emoji])
            ELSE acc.own
    IN  IF HasOwnEntry(created, category)
        THEN [own |-> [i \in 1..Len(created) |->
                        IF created[i].name = category
                        THEN [created[i] EXCEPT
                                !.amount = @ + Abs(transaction.amount)]
                        ELSE created[i]],
              inherited |-> acc.inherited]
        ELSE \* categories[category] is the inherited object: undefined + x
             [own |-> created, inherited |-> acc.inherited \cup {category}]

RECURSIVE CategoryMap(_)
CategoryMap(spendTransactions) ==
    IF spendTransactions = <<>> THEN [own |-> <<>>, inherited |-> {}]
    ELSE AddTransaction(
            CategoryMap(SubSeq(spendTransactions, 1, Len(spendTransactions) - 1)),
            spendTransactions[Len(spendTransactions)])

\* The entries of seq whose key index is the k-th smallest come first.
RECURSIVE AscendingByIndex(_)
AscendingByIndex(seq) ==
    IF seq = <<>> THEN <<>>
    ELSE LET m == CHOOSE i \in 1..Len(seq) :
                    \A j \in 1..Len(seq) : KeyIndex(seq[i].name) <= KeyIndex(seq[j].name)
         IN  <<seq[m]>> \o AscendingByIndex(
                [i \in 1..(Len(seq) - 1) |-> IF i < m THEN seq[i] ELSE seq[i + 1]])

IsIndexEntry(e) == e.name \in ArrayIndexKeys

IsNamedEntry(e) == e.name \notin ArrayIndexKeys

\* Object.values(categories): own properties, array-index keys first in
\* ascending numeric order, then the other keys in insertion order.
ObjectValues(entries) ==
    AscendingByIndex(SelectSeq(entries, IsIndexEntry)) \o SelectSeq(entries, IsNamedEntry)

\* parseFloat(((amount / totalSpend) * 100).toFixed(2)); a division by zero
\* gives NaN (0/0) or Infinity (x/0), which toFixed and parseFloat pass on.
Percentage(amount, totalSpend) ==
    IF totalSpend = 0
    THEN [kind |-> IF amount = 0 THEN "NaN" ELSE "Infinity", value |-> 0]
    ELSE [kind |-> "finite",
          value |-> ParseFloat(ToFixed2Quot(amount * 100, totalSpend))]

\* The forEach that rounds each amount and adds its percentage.
WithPercentages(breakdown, totalSpend) ==
    [i \in 1..Len(breakdown) |->
        LET amount == ParseFloat(ToFixed2(breakdown[i].amount))
        IN  [name |-> breakdown[i].name,
             amount |-> amount,
             emoji |-> breakdown[i].emoji,
             percentage |-> Percentage(amount, totalSpend)]]

\* sort((a, b) => b.amount - a.amount): Array.prototype.sort is stable, so an
\* entry goes behind every entry that does not sort after it.
InsertByAmountDesc(sorted, e) ==
    LET k == Cardinality({i \in 1..Len(sorted) : sorted[i].amount >= e.amount})
    IN  SubSeq(sorted, 1, k) \o <<e>> \o SubSeq(sorted, k + 1, Len(sorted))

RECURSIVE SortByAmountDesc(_)
SortByAmountDesc(seq) ==
    IF seq = <<>> THEN <<>>
    ELSE InsertByAmountDesc(SortByAmountDesc(SubSeq(seq, 1, Len(seq) - 1)),
                            seq[Len(seq)])

\* A total that adds the amounts as signed.
RECURSIVE SignedTotal(_)
SignedTotal(subscriptions) ==
    IF subscriptions = <<>> THEN 0
    ELSE subscriptions[1].amount + SignedTotal(Tail(subscriptions))

\* subscriptions.reduce((sum, sub) => sum + Math.abs(sub.amount), 0)
SubscriptionTotal(subscriptions) == SumAbs(subscriptions)

----------------------------------------------------------------------------
(* The function *)

\* A function that leaves the property in place.
KeepProperty(own, name) == own

\* delete result[name]
DeleteProperty(own, name) == own \ {name}

Undefined == [kind |-> "undefined", ref |-> "none"]
Null == [kind |-> "null", ref |-> "none"]
Ref(r) == [kind |-> "ref", ref |-> r]

\* A call that ended in a TypeError instead of returning.
Throws == [kind |-> "throws", ref |-> "none"]

\* t.amount of a null element: the filter callback throws.
FilterThrows(items) == \E i \in 1..Len(items) : items[i].kind = "null"

\* result.possibleSubscriptions || []
SubscriptionsOf(o) ==
    IF "possibleSubscriptions" \in o.own /\ o.possibleSubscriptionsKind = "array"
    THEN o.possibleSubscriptions ELSE <<>>

\* subscriptions.reduce where subscriptions is truthy and no array: not a function
ReduceThrows(o) ==
    /\ "possibleSubscriptions" \in o.own
    /\ o.possibleSubscriptionsKind \in {"string", "object"}

\* calculateFinancialMetrics(periodData) on heap h: the value returned, the
\* heap it leaves and the inherited names whose object it gave an `amount`.
calculateFinancialMetrics(h, pd) ==
    IF pd.kind # "ref"
       \/ ~Truthy(h[pd.ref].transactions)
       \/ ~IsArray(h[pd.ref].transactions)
    THEN [returns |-> Null, heap |-> h, inherited |-> {}]
    ELSE
    LET r == ResultRef(pd.ref)
        h1 == [h EXCEPT ![r] = JsonClone(h[pd.ref])]
        o == h1[r]
        spendTransactions == SelectSeq(o.transactions.items, IsSpend)
        totalSpend == SumAbs(spendTransactions)
        categories == CategoryMap(spendTransactions)
        categoryBreakdown ==
            SortByAmountDesc(
                WithPercentages(ObjectValues(categories.own), totalSpend))
        subscriptions == SubscriptionsOf(o)
        subscriptionTotal == SubscriptionTotal(subscriptions)
        \* the object when line 279 is done
        o2 == [o EXCEPT
                !.own = @ \cup {"totalSpend", "formattedTotal", "categoryBreakdown"},
                !.totalSpend = totalSpend,
                !.formattedTotal = FormattedTotal(o, totalSpend),
                !.categoryBreakdown = categoryBreakdown]
    IN  IF FilterThrows(o.transactions.items)
        THEN [returns |-> Throws, heap |-> h1, inherited |-> {}]
        ELSE IF ReduceThrows(o)
        THEN [returns |-> Throws, heap |-> [h1 EXCEPT ![r] = o2],
              inherited |-> categories.inherited]
        ELSE
        [returns |-> Ref(r),
         heap |-> [h1 EXCEPT ![r] =
            [o2 EXCEPT
                !.own = DeleteProperty(@ \cup {"subscriptions"},
                                       "possibleSubscriptions"),
                !.subscriptions =
                    [count |-> Len(subscriptions),
                     total |-> ParseFloat(ToFixed2(subscriptionTotal)),
                     list |-> subscriptions],
                !.possibleSubscriptions = <<>>,
                !.possibleSubscriptionsKind = "array"]],
         inherited |-> categories.inherited]

----------------------------------------------------------------------------
(* The state machine: a caller holding a period object calls the function *)
(* once and then owns what it returned.                                   *)

NoRaw == [kind |-> "none", weekly |-> Undefined, monthly |-> Undefined,
          yearly |-> Undefined]

\* No request is being handled.
HandlerIdle ==
    /\ request = [method |-> "none", fileEntries |-> <<>>]
    /\ hpc = "idle"
    /\ entryIndex = 1
    /\ uploadedFiles = 0
    /\ events = <<>>
    /\ raw = NoRaw
    /\ responses = <<>>

\* The period objects a caller may hold: a sequence of transactions with or
\* without candidates, within the bounds, or something else for `transactions`.
InitArg(o) ==
    \/ \E c \in Currencies, k \in 0..MaxItems :
         \E txs \in [1..k -> Transaction] :
            \/ \E subs \in SeqsUpTo(SubscriptionCandidate, MaxItems - k) :
                    o = PeriodObject(c, "array", txs, TRUE, subs)
            \/ o = PeriodObject(c, "array", txs, FALSE, <<>>)
    \/ \E c \in Currencies, kind \in NonArrayKinds :
         \E subs \in SeqsUpTo(SubscriptionCandidate, 1) :
            o = PeriodObject(c, kind, <<>>, TRUE, subs)

Init ==
    /\ \/ /\ periodData \in {Undefined, Null}
          /\ given = EmptyObject
       \/ /\ periodData = Ref("arg")
          /\ InitArg(given)
    /\ heap = [arg |-> given, copy |-> EmptyObject]
    /\ result = [kind |-> "pending", ref |-> "none"]
    /\ builtinsWithAmount = {}
    /\ pc = "ready"
    /\ calls = <<>>
    /\ HandlerIdle

\* What a call handed back, as a value: the returned kind and, for a summary,
\* the object as it was on return.
Outcome(slot, out) ==
    [slot |-> slot,
     kind |-> out.returns.kind,
     value |-> IF out.returns.kind = "ref" THEN out.heap[out.returns.ref]
               ELSE EmptyObject]

\* processedData.<period> = calculateFinancialMetrics(rawAnalysisData.<period>)
Call ==
    /\ pc = "ready"
    /\ LET out == calculateFinancialMetrics(heap, periodData)
       IN  /\ result' = out.returns
           /\ heap' = out.heap
           /\ builtinsWithAmount' = builtinsWithAmount \cup out.inherited
           /\ calls' = Append(calls, Outcome("arg", out))
    /\ pc' = "returned"
    /\ UNCHANGED <<periodData, given>>
    /\ UNCHANGED hvars

\* The caller changes the summary it was handed: it empties the summary's
\* transactions and subscription list and overwrites its currency.
EditSummary ==
    /\ pc = "returned"
    /\ result.kind = "ref"
    /\ heap' = [heap EXCEPT
                  ![result.ref].transactions.items = <<>>,
                  ![result.ref].subscriptions.list = <<>>,
                  ![result.ref].currency = "edited"]
    /\ pc' = "edited"
    /\ UNCHANGED <<periodData, given, result, builtinsWithAmount, calls>>
    /\ UNCHANGED hvars

Next == Call \/ EditSummary

Spec == Init /\ [][Next]_vars

\* The same caller, holding only transactions whose category names are not
\* names an object inherits.
InitOwnNames ==
    /\ Init
    /\ \A i \in 1..Len(given.transactions.items) :
            given.transactions.items[i].category \notin ObjectPrototypeProps

SpecOwnNames == InitOwnNames /\ [][Next]_vars

\* A caller that calls the function on its period object twice and, at any
\* point before, between or after, once on another period object, whose spend
\* is in a category named like an inherited property.
OtherObject ==
    PeriodObject("$", "array",
        <<[kind |-> "object", amount |-> -1000, category |-> "constructor",
           emoji |-> "house"]>>,
        TRUE,
        <<[name |-> "Netflix", amount |-> -15500, emoji |-> "tv"]>>)

InitRepeat ==
    /\ periodData = Ref("arg")
    /\ InitArg(given)
    /\ given.currency = "$"
    /\ \A i \in 1..Len(given.transactions.items) :
            given.transactions.items[i].emoji = "burger"
    /\ heap = [arg |-> given, copy |-> EmptyObject,
               other |-> OtherObject, otherCopy |-> EmptyObject]
    /\ result = [kind |-> "pending", ref |-> "none"]
    /\ builtinsWithAmount = {}
    /\ pc = "ready"
    /\ calls = <<>>
    /\ HandlerIdle

CallAgain ==
    /\ pc = "returned"
    /\ LET out == calculateFinancialMetrics(heap, periodData)
       IN  /\ result' = out.returns
           /\ heap' = out.heap
           /\ builtinsWithAmount' = builtinsWithAmount \cup out.inherited
           /\ calls' = Append(calls, Outcome("arg", out))
    /\ pc' = "repeated"
    /\ UNCHANGED <<periodData, given>>
    /\ UNCHANGED hvars

CallOther ==
    /\ \A i \in 1..Len(calls) : calls[i].slot # "other"
    /\ LET out == calculateFinancialMetrics(heap, Ref("other"))
       IN  /\ heap' = out.heap
           /\ builtinsWithAmount' = builtinsWithAmount \cup out.inherited
           /\ calls' = Append(calls, Outcome("other", out))
    /\ UNCHANGED <<periodData, given, result, pc>>
    /\ UNCHANGED hvars

NextRepeat == Call \/ CallAgain \/ CallOther

SpecRepeat == InitRepeat /\ [][NextRepeat]_vars

\* A caller holding a period object that has a sequence of transactions and
\* is malformed in other ways: no currency, null or bare elements, and
\* possibleSubscriptions missing, null, a string or a plain object.
MalformedArg(o) ==
    \E k \in 0..MaxItems, hasCurrency \in BOOLEAN :
      \E txs \in [1..k -> {NullElement, BareTransaction,
                           [BareTransaction EXCEPT !.category = "Food"]}] :
        \E subsKind \in {"missing", "array", "null", "string", "object"} :
          \E subs \in (IF subsKind = "array"
                        THEN SeqsUpTo(SubscriptionCandidate, 1) ELSE {<<>>}) :
            o = [PeriodObject("$", "array", txs, subsKind # "missing", subs)
                    EXCEPT !.own = IF hasCurrency THEN @ ELSE @ \ {"currency"},
                           !.possibleSubscriptionsKind =
                                IF subsKind = "missing" THEN "array" ELSE subsKind]

InitMalformed ==
    /\ periodData = Ref("arg")
    /\ MalformedArg(given)
    /\ heap = [arg |-> given, copy |-> EmptyObject]
    /\ result = [kind |-> "pending", ref |-> "none"]
    /\ builtinsWithAmount = {}
    /\ pc = "ready"
    /\ calls = <<>>
    /\ HandlerIdle

SpecMalformed == InitMalformed /\ [][Next]_vars

----------------------------------------------------------------------------
(* GeminiProcess.handle: one request, from its arrival to its response *)

\* The form holds at most MaxEntries values under `files`.
MaxEntries == 2

Methods == {"POST", "OPTIONS"}

\* formData.getAll("files") gives File objects and, for text fields, strings.
EntryKinds == {"File", "string"}

Periods == <<"weekly", "monthly", "yearly">>

PeriodNames == {Periods[i] : i \in 1..Len(Periods)}

\* What the model's JSON may hold for one period: nothing; an object whose
\* `transactions` is no sequence; two well-formed periods; and a period with
\* a null among its transactions.
PeriodSamples ==
    { [present |-> FALSE, object |-> EmptyObject],
      [present |-> TRUE,
       object |-> PeriodObject("$", "object", <<>>, TRUE, <<>>)],
      [present |-> TRUE,
       object |-> PeriodObject("$", "array",
                    << [kind |-> "object", amount |-> -1000,
                        category |-> "Food", emoji |-> "burger"],
                       [kind |-> "object", amount |-> 2000,
                        category |-> "Food", emoji |-> "house"] >>,
                    TRUE,
                    << [name |-> "Netflix", amount |-> -15500, emoji |-> "tv"] >>)],
      [present |-> TRUE,
       object |-> PeriodObject("EUR", "array",
                    << [kind |-> "object", amount |-> -6,
                        category |-> "10", emoji |-> "house"],
                       [kind |-> "object", amount |-> -1000,
                        category |-> "constructor", emoji |-> "burger"] >>,
                    FALSE, <<>>)],
      [present |-> TRUE,
       object |-> PeriodObject("$", "array", <<NullElement>>, TRUE, <<>>)] }

NoPeriod == [present |-> FALSE, object |-> EmptyObject]

\* result.response.text() by what JSON.parse makes of it: "invalid" is text
\* that is no JSON, "null" the JSON text null, "object" a JSON object with
\* the three periods it holds.
RawAnalysisData ==
    { [kind |-> "invalid", weekly |-> NoPeriod, monthly |-> NoPeriod,
       yearly |-> NoPeriod],
      [kind |-> "null", weekly |-> NoPeriod, monthly |-> NoPeriod,
       yearly |-> NoPeriod] }
    \cup [kind : {"object"}, weekly : PeriodSamples, monthly : PeriodSamples,
          yearly : PeriodSamples]

\* An external step, or the parsing and recalculation after them, as it
\* ended; fileParts is the length of uploadedFiles at that moment.
Event(step, ok) == [step |-> step, ok |-> ok, fileParts |-> uploadedFiles]

NoValue == [kind |-> "absent", value |-> EmptyObject]

NoResult ==
    [present |-> FALSE, weekly |-> NoValue, monthly |-> NoValue,
     yearly |-> NoValue]

\* new Response(null, {status: 204, ...})
PreflightResponse ==
    [status |-> 204, body |-> "null", success |-> FALSE, error |-> "",
     stack |-> FALSE, result |-> NoResult]

MissingFilesResponse ==
    [status |-> 400, body |-> "json", success |-> FALSE,
     error |-> "Missing files", stack |-> FALSE, result |-> NoResult]

\* the catch block's response; `stack` is in the body in development only
GenericErrorResponse(message, development) ==
    [status |-> 500, body |-> "json", success |-> FALSE,
     error |-> "Internal Server Error", stack |-> development,
     result |-> NoResult]

ErrorResponse(message, development) ==
    [status |-> 500, body |-> "json", success |-> FALSE, error |-> message,
     stack |-> development, result |-> NoResult]

SuccessResponse(processedData) ==
    [status |-> 200, body |-> "json", success |-> TRUE, error |-> "",
     stack |-> FALSE, result |-> processedData]

\* The message of the error a failing step throws.
MessageOf(step) == step \o " failed"

TypeErrorMessage == "TypeError"

\* An error that is swallowed: the handler stops and returns nothing.
Swallowed(message) ==
    /\ hpc' = "failed"
    /\ UNCHANGED responses

\* catch (error): the response of the handler is the 500 response.
Caught(message) ==
    /\ \E development \in BOOLEAN :
            responses' = Append(responses, ErrorResponse(message, development))
    /\ hpc' = "responded"

\* rawAnalysisData.<period>: a reference to the parsed object, or undefined
Property(rawData, period) ==
    IF rawData[period].present THEN Ref(period) ELSE Undefined

\* the period whose raw data is recalculated for processedData.<period>
ArgumentFor(period) == period

IsNoSummary(v) == v.kind # "ref"

IsThrow(v) == v.kind = "throws"

\* One property of the processedData literal is evaluated, unless an
\* earlier one threw.
Evaluate(acc, rawData, period) ==
    IF acc.threw THEN acc
    ELSE LET out == calculateFinancialMetrics(
                        acc.heap, Property(rawData, ArgumentFor(period)))
         IN  [heap |-> out.heap,
              returns |-> [acc.returns EXCEPT ![period] = out.returns],
              inherited |-> acc.inherited \cup out.inherited,
              threw |-> IsThrow(out.returns)]

\* The processedData literal: weekly, then monthly, then yearly.
RECURSIVE EvaluateThrough(_, _, _)
EvaluateThrough(h, rawData, k) ==
    IF k = 0
    THEN [heap |-> h,
          returns |-> [p \in PeriodNames |-> Undefined],
          inherited |-> {},
          threw |-> FALSE]
    ELSE Evaluate(EvaluateThrough(h, rawData, k - 1), rawData, Periods[k])

Recalculation(h, rawData) == EvaluateThrough(h, rawData, Len(Periods))

\* What JSON.stringify writes for processedData.<period>: null, or the
\* summary object as it is at that moment.
Stringified(out, period) ==
    IF out.returns[period].kind = "ref"
    THEN [kind |-> "ref", value |-> out.heap[out.returns[period].ref]]
    ELSE [kind |-> "null", value |-> EmptyObject]

ProcessedData(out) ==
    [present |-> TRUE,
     weekly |-> Stringified(out, "weekly"),
     monthly |-> Stringified(out, "monthly"),
     yearly |-> Stringified(out, "yearly")]

HandlerHeap ==
    [weekly |-> EmptyObject, monthly |-> EmptyObject, yearly |-> EmptyObject,
     weeklyCopy |-> EmptyObject, monthlyCopy |-> EmptyObject,
     yearlyCopy |-> EmptyObject]

\* A request has arrived; nobody else calls the function.
InitHandler ==
    /\ request \in [method : Methods,
                    fileEntries : SeqsUpTo(EntryKinds, MaxEntries)]
    /\ hpc = "received"
    /\ entryIndex = 1
    /\ uploadedFiles = 0
    /\ events = <<>>
    /\ raw = NoRaw
    /\ responses = <<>>
    /\ heap = HandlerHeap
    /\ builtinsWithAmount = {}
    /\ periodData = Undefined
    /\ given = EmptyObject
    /\ result = [kind |-> "pending", ref |-> "none"]
    /\ pc = "idle"
    /\ calls = <<>>

\* the CORS preflight
Preflight ==
    /\ hpc = "received"
    /\ request.method = "OPTIONS"
    /\ responses' = Append(responses, PreflightResponse)
    /\ hpc' = "responded"
    /\ UNCHANGED <<request, entryIndex, uploadedFiles, events, raw>>
    /\ UNCHANGED <<heap, builtinsWithAmount, fvars>>

\* await c.req.formData(), and the check for an empty `files`
ParseForm ==
    /\ hpc = "received"
    /\ request.method # "OPTIONS"
    /\ \/ /\ events' = Append(events, Event("formData", TRUE))
          /\ IF Len(request.fileEntries) = 0
             THEN /\ responses' = Append(responses, MissingFilesResponse)
                  /\ hpc' = "responded"
             ELSE /\ hpc' = "uploading"
                  /\ UNCHANGED responses
       \/ /\ events' = Append(events, Event("formData", FALSE))
          /\ Caught(MessageOf("formData"))
    /\ UNCHANGED <<request, entryIndex, uploadedFiles, raw>>
    /\ UNCHANGED <<heap, builtinsWithAmount, fvars>>

\* One turn of the loop for an entry that is a File: its bytes are read and
\* uploaded, and the uploaded file is pushed; either await may throw.
Upload ==
    /\ hpc = "uploading"
    /\ entryIndex <= Len(request.fileEntries)
    /\ request.fileEntries[entryIndex] = "File"
    /\ \/ /\ events' = Append(events, Event("upload", TRUE))
          /\ uploadedFiles' = uploadedFiles + 1
          /\ entryIndex' = entryIndex + 1
          /\ UNCHANGED <<hpc, responses>>
       \/ /\ events' = Append(events, Event("upload", FALSE))
          /\ Caught(MessageOf("upload"))
          /\ UNCHANGED <<uploadedFiles, entryIndex>>
    /\ UNCHANGED <<request, raw>>
    /\ UNCHANGED <<heap, builtinsWithAmount, fvars>>

\* One turn of the loop for an entry that is no File: nothing is uploaded.
SkipEntry ==
    /\ hpc = "uploading"
    /\ entryIndex <= Len(request.fileEntries)
    /\ request.fileEntries[entryIndex] # "File"
    /\ entryIndex' = entryIndex + 1
    /\ UNCHANGED <<request, hpc, uploadedFiles, events, raw, responses>>
    /\ UNCHANGED <<heap, builtinsWithAmount, fvars>>

\* await model.generateContent, parts = the text and one part per uploaded
\* file; when it returns, its text is whatever the model wrote.
GenerateContent ==
    /\ hpc = "uploading"
    /\ entryIndex > Len(request.fileEntries)
    /\ \/ /\ events' = Append(events, Event("generateContent", TRUE))
          /\ \E rawData \in RawAnalysisData :
                /\ raw' = rawData
                /\ heap' = [heap EXCEPT !.weekly = rawData.weekly.object,
                                        !.monthly = rawData.monthly.object,
                                        !.yearly = rawData.yearly.object]
          /\ hpc' = "generated"
          /\ UNCHANGED responses
       \/ /\ events' = Append(events, Event("generateContent", FALSE))
          /\ Caught(MessageOf("generateContent"))
          /\ UNCHANGED <<raw, heap>>
    /\ UNCHANGED <<request, entryIndex, uploadedFiles>>
    /\ UNCHANGED <<builtinsWithAmount, fvars>>

\* JSON.parse of the text, the three recalculations and the response
Recalculate ==
    /\ hpc = "generated"
    /\ IF raw.kind = "invalid"
       THEN /\ events' = Append(events, Event("JSON.parse", FALSE))
            /\ Caught(MessageOf("JSON.parse"))
            /\ UNCHANGED <<heap, builtinsWithAmount>>
       ELSE IF raw.kind = "null"
       THEN \* rawAnalysisData.weekly of null
            /\ events' = events \o <<Event("JSON.parse", TRUE),
                                     Event("recalculate", FALSE)>>
            /\ Caught(TypeErrorMessage)
            /\ UNCHANGED <<heap, builtinsWithAmount>>
       ELSE LET out == Recalculation(heap, raw)
            IN  /\ heap' = out.heap
                /\ builtinsWithAmount' = builtinsWithAmount \cup out.inherited
                /\ events' = events \o <<Event("JSON.parse", TRUE),
                                         Event("recalculate", ~out.threw)>>
                /\ IF out.threw
                   THEN Caught(TypeErrorMessage)
                   ELSE /\ responses' =
                              Append(responses, SuccessResponse(ProcessedData(out)))
                        /\ hpc' = "responded"
    /\ UNCHANGED <<request, entryIndex, uploadedFiles, raw>>
    /\ UNCHANGED fvars

NextHandler ==
    Preflight \/ ParseForm \/ Upload \/ SkipEntry \/ GenerateContent \/ Recalculate

SpecHandler == InitHandler /\ [][NextHandler]_vars

\* The code after the model call is synchronous: once generateContent has
\* returned, the handler runs on to a return statement.  Recalculate can be
\* taken exactly when hpc = "generated", and every step of it ends at
\* "responded", so its steps are the steps of SpecHandler from the one
\* position to the other.
RunsToReturn == hpc = "generated" /\ hpc' = "responded"

\* Every awaited call settles (it returns or throws) and the code between
\* two awaits runs to its end, so a step that can be taken is taken.
FairHandler ==
    /\ WF_vars(Preflight)
    /\ WF_vars(ParseForm)
    /\ WF_vars(Upload)
    /\ WF_vars(SkipEntry)
    /\ WF_vars(GenerateContent)
    /\ WF_hpc(RunsToReturn)

SpecHandlerFair == SpecHandler /\ FairHandler

----------------------------------------------------------------------------
(* What the properties below speak of *)

\* The call returned a summary, which the caller has not touched yet.
Returned == pc = "returned" /\ result.kind = "ref"

Summary == heap[result.ref]

Transactions == given.transactions.items

GivenSequence == periodData.kind = "ref" /\ given.transactions.kind = "array"

\* The sum of -amount over the transactions of negative amount.
RECURSIVE NegativeTotal(_)
NegativeTotal(items) ==
    IF items = <<>> THEN 0
    ELSE (IF Head(items).amount < 0 THEN 0 - Head(items).amount ELSE 0)
         + NegativeTotal(Tail(items))

RECURSIVE AbsTotal(_)
AbsTotal(list) ==
    IF list = <<>> THEN 0
    ELSE (IF Head(list).amount < 0 THEN 0 - Head(list).amount ELSE Head(list).amount)
         + AbsTotal(Tail(list))

RECURSIVE AmountSum(_)
AmountSum(breakdown) ==
    IF breakdown = <<>> THEN 0
    ELSE Head(breakdown).amount + AmountSum(Tail(breakdown))

RECURSIVE PercentageSum(_)
PercentageSum(breakdown) ==
    IF breakdown = <<>> THEN 0
    ELSE Head(breakdown).percentage.value + PercentageSum(Tail(breakdown))

Distance(x, y) == IF x < y THEN y - x ELSE x - y

\* 0.01, and 100 percent
Cent == Scale \div 100
Hundred == 100 * Scale

SpendCategories ==
    {Transactions[i].category : i \in {j \in 1..Len(Transactions) : Transactions[j].amount < 0}}

\* The position of the first spend transaction of the category.
FirstSeen(name) ==
    CHOOSE i \in 1..Len(Transactions) :
        /\ Transactions[i].amount < 0 /\ Transactions[i].category = name
        /\ \A j \in 1..(i - 1) :
                ~(Transactions[j].amount < 0 /\ Transactions[j].category = name)

----------------------------------------------------------------------------
(* Properties *)

\* C1: the call returns null when the period object is missing or null or its
\* `transactions` is missing, null or not a sequence, and returns a summary
\* when `transactions` is a sequence, the empty one included.
C1_NullIffNoSequence ==
    pc # "ready" =>
        IF GivenSequence
        THEN result.kind = "ref" /\ "totalSpend" \in heap[result.ref].own
        ELSE result = Null

\* C1 witness: `transactions` holds a string and the call returned null.
C1_Witness ==
    /\ pc = "returned" /\ periodData.kind = "ref"
    /\ given.transactions.kind = "string" /\ result = Null

\* C2: totalSpend is the sum of abs(amount) over exactly the transactions of
\* amount < 0; those of amount >= 0 add nothing.
C2_TotalSpendIsNegativeTotal ==
    Returned => Summary.totalSpend = NegativeTotal(Transactions)

\* C2 witness: a summary of a transaction of amount 0 followed by a spend.
C2_Witness ==
    /\ Returned /\ Summary.totalSpend > 0
    /\ \E i, j \in 1..Len(Transactions) :
            i < j /\ Transactions[i].amount = 0 /\ Transactions[j].amount < 0

\* C3: categoryBreakdown has exactly one entry for each category name that
\* occurs on a transaction of amount < 0, and no other entry.
C3_OneEntryPerSpendCategory ==
    Returned =>
        LET b == Summary.categoryBreakdown
        IN  /\ {b[i].name : i \in 1..Len(b)} = SpendCategories
            /\ Len(b) = Cardinality(SpendCategories)

\* C4: the sum of the categoryBreakdown amounts differs from totalSpend by at
\* most 0.01 times the number of categories.
C4_AmountsSumToTotal ==
    Returned =>
        LET b == Summary.categoryBreakdown
        IN  Distance(AmountSum(b), Summary.totalSpend) <= Cent * Len(b)

\* C5: when totalSpend > 0, the percentages of categoryBreakdown sum to 100
\* within 0.01 per category.
C5_PercentagesSumTo100 ==
    (Returned /\ Summary.totalSpend > 0) =>
        LET b == Summary.categoryBreakdown
        IN  /\ \A i \in 1..Len(b) : b[i].percentage.kind = "finite"
            /\ Distance(PercentageSum(b), Hundred) <= Cent * Len(b)

\* C6: every categoryBreakdown entry has amount >= 0 and a percentage between
\* 0 and 100.
C6_EntriesInRange ==
    Returned =>
        \A i \in 1..Len(Summary.categoryBreakdown) :
            LET e == Summary.categoryBreakdown[i]
            IN  /\ e.amount >= 0
                /\ e.percentage.kind = "finite"
                /\ e.percentage.value >= 0 /\ e.percentage.value <= Hundred

\* C7: categoryBreakdown is in non-increasing order of amount, and entries of
\* equal amount are in the order in which their categories first occur among
\* the spend transactions.
C7_SortedStableFirstSeen ==
    Returned =>
        LET b == Summary.categoryBreakdown
        IN  \A i, j \in 1..Len(b) :
                i < j =>
                    /\ b[i].amount >= b[j].amount
                    /\ b[i].amount = b[j].amount =>
                            FirstSeen(b[i].name) < FirstSeen(b[j].name)

\* C8: in a returned summary no percentage is NaN or infinite; a non-empty
\* categoryBreakdown implies totalSpend > 0, and without a transaction of
\* amount < 0 totalSpend is 0 and categoryBreakdown is empty.
C8_NoDivisionByZero ==
    Returned =>
        LET b == Summary.categoryBreakdown
        IN  /\ \A i \in 1..Len(b) : b[i].percentage.kind = "finite"
            /\ b # <<>> => Summary.totalSpend > 0
            /\ (\A i \in 1..Len(Transactions) : Transactions[i].amount >= 0)
                   => (Summary.totalSpend = 0 /\ b = <<>>)

\* C8 witness: a summary of transactions none of which is a spend, one of
\* them of amount 0.
C8_Witness ==
    /\ Returned
    /\ \E i \in 1..Len(Transactions) : Transactions[i].amount = 0
    /\ \A i \in 1..Len(Transactions) : Transactions[i].amount >= 0
    /\ Summary.totalSpend = 0 /\ Summary.categoryBreakdown = <<>>

\* C9: the call and later changes to the summary leave the caller's period
\* object as it was given: no field added, removed or changed.
C9_ArgumentUnchanged ==
    /\ heap["arg"] = given
    /\ result.kind = "ref" => result.ref # periodData.ref

\* C9 witness: the caller has edited the summary of a period object that has
\* transactions and candidates.
C9_Witness ==
    /\ pc = "edited"
    /\ given.transactions.items # <<>> /\ given.possibleSubscriptions # <<>>
    /\ "possibleSubscriptions" \in heap["arg"].own
    /\ "possibleSubscriptions" \notin Summary.own
    /\ Summary.transactions.items = <<>>

\* C10: subscriptions.total is the sum of abs(amount) over subscriptions.list
\* rounded to 2 decimals, whatever the signs of the amounts.
C10_SubscriptionTotal ==
    Returned =>
        LET total == Summary.subscriptions.total
            sum == AbsTotal(Summary.subscriptions.list)
        IN  /\ total % Cent = 0
            /\ 2 * (sum - total) < Cent /\ 2 * (total - sum) <= Cent

\* C10 witness: the list holds a negative and a positive amount, and the
\* sum is not a whole number of cents.
C10_Witness ==
    /\ Returned
    /\ \E i, j \in 1..Len(Summary.subscriptions.list) :
            /\ Summary.subscriptions.list[i].amount < 0
            /\ Summary.subscriptions.list[j].amount > 0
    /\ AbsTotal(Summary.subscriptions.list) % Cent # 0
    /\ Summary.subscriptions.total > 0

\* C11: in a returned summary possibleSubscriptions is replaced by
\* subscriptions: the summary has no possibleSubscriptions, subscriptions.list
\* is the input's candidates in the same order, subscriptions.count is their
\* number, and without possibleSubscriptions it is count 0, total 0, no list.
C11_SubscriptionsReplaceCandidates ==
    Returned =>
        /\ "possibleSubscriptions" \notin Summary.own
        /\ "subscriptions" \in Summary.own
        /\ IF "possibleSubscriptions" \in given.own
           THEN /\ Summary.subscriptions.list = given.possibleSubscriptions
                /\ Summary.subscriptions.count = Len(given.possibleSubscriptions)
           ELSE Summary.subscriptions = [count |-> 0, total |-> 0, list |-> <<>>]

\* C11 witness: a summary of a period object with two different candidates.
C11_Witness ==
    /\ Returned
    /\ "possibleSubscriptions" \in given.own
    /\ Len(given.possibleSubscriptions) = 2
    /\ given.possibleSubscriptions[1] # given.possibleSubscriptions[2]
    /\ Summary.subscriptions.count = 2

\* C14: the breakdown entry of a category carries the emoji of the first
\* spend transaction of that category in input order.
C14_FirstSeenEmoji ==
    Returned =>
        \A i \in 1..Len(Summary.categoryBreakdown) :
            LET e == Summary.categoryBreakdown[i]
            IN  e.emoji = Transactions[FirstSeen(e.name)].emoji

\* C14 witness: two spend transactions of one category with different emojis,
\* and the entry has the emoji of the first.
C14_Witness ==
    /\ Returned
    /\ Len(Transactions) = 2
    /\ Transactions[1].amount < 0 /\ Transactions[2].amount < 0
    /\ Transactions[1].category = Transactions[2].category
    /\ Transactions[1].emoji # Transactions[2].emoji
    /\ Len(Summary.categoryBreakdown) = 1
    /\ Summary.categoryBreakdown[1].emoji = Transactions[1].emoji

\* The cents nearest to x thousandths, and a decimal digit as a character.
NearestCents(x) == CHOOSE n \in 0..(x + 1) : 2 * (n * Cent - x) \in (1 - Cent)..Cent
Digit(k) == <<"0", "1", "2", "3", "4", "5", "6", "7", "8", "9">>[k + 1]

\* C15: formattedTotal is the input's currency followed by totalSpend with
\* exactly 2 fractional digits.
C15_FormattedTotal ==
    Returned =>
        LET cents == NearestCents(Summary.totalSpend)
        IN  Summary.formattedTotal =
                given.currency \o ToString(cents \div 100) \o "."
                    \o Digit((cents \div 10) % 10) \o Digit(cents % 10)

\* C15 witness: a total of 1.01 (1.006 before rounding) in currency EUR.
C15_Witness ==
    /\ Returned
    /\ given.currency = "EUR"
    /\ Summary.totalSpend = 1006
    /\ Summary.formattedTotal = "EUR1.01"

\* C12: for every input whose `transactions` is a sequence the call returns
\* a summary and raises no exception, whatever the other fields hold.
C12_NoException ==
    (pc # "ready" /\ GivenSequence) => result.kind = "ref"

\* C13: two calls on the same input return identical outputs, whatever calls
\* on other inputs come before or between them.
C13_SameInputSameOutput ==
    \A i, j \in 1..Len(calls) :
        calls[i].slot = calls[j].slot =>
            calls[i].kind = calls[j].kind /\ calls[i].value = calls[j].value

\* C13 witness: a call on the other object, which left an `amount` on a
\* built-in, came between two calls on an object with spend and candidates.
C13_Witness ==
    /\ Len(calls) = 3
    /\ calls[1].slot = "arg" /\ calls[2].slot = "other" /\ calls[3].slot = "arg"
    /\ calls[3].kind = "ref"
    /\ calls[3].value.subscriptions.count > 0
    /\ calls[3].value.totalSpend > 0
    /\ builtinsWithAmount # {}

----------------------------------------------------------------------------
(* Properties of GeminiProcess.handle *)

\* The handler has answered a request that was no preflight.
Answered == hpc = "responded" /\ request.method # "OPTIONS" /\ responses # <<>>

TheResponse == responses[Len(responses)]

\* The step has been taken and ended well.
Succeeded(step) ==
    \E i \in 1..Len(events) : events[i].step = step /\ events[i].ok

\* The step has been taken, however it ended.
Taken(step) == \E i \in 1..Len(events) : events[i].step = step

\* The form was read, every File was uploaded, the model answered and its
\* text parsed as JSON.
UploadsModelAndParsingSucceeded ==
    Succeeded("generateContent") /\ Succeeded("JSON.parse")

HasPeriodKeys(r) ==
    /\ r.result.present
    /\ \A p \in PeriodNames : r.result[p].kind \in {"null", "ref"}

\* C16: every request that is no preflight is answered with the success
\* envelope (status 200, all three period keys) when uploads, the model call
\* and JSON parsing all succeeded, and with the failure envelope (status 400
\* or 500, an error message) otherwise; success is true exactly when the
\* status is 200.
C16_TwoEnvelopes ==
    Answered =>
        /\ TheResponse.body = "json"
        /\ TheResponse.success <=> TheResponse.status = 200
        /\ TheResponse.success => HasPeriodKeys(TheResponse)
        /\ ~TheResponse.success =>
                /\ TheResponse.status \in {400, 500}
                /\ TheResponse.error # ""
                /\ ~TheResponse.result.present
        /\ TheResponse.success <=> UploadsModelAndParsingSucceeded

\* The period of the parsed response has no transaction sequence: it is
\* missing, or its `transactions` is no array.
NoSequence(period) ==
    ~period.present \/ period.object.transactions.kind # "array"

\* The period is as the response schema describes it.
WellFormed(period) ==
    /\ period.present
    /\ period.object.transactions.kind = "array"
    /\ \A i \in 1..Len(period.object.transactions.items) :
            period.object.transactions.items[i].kind = "object"
    /\ period.object.possibleSubscriptionsKind = "array"

\* The summary a call on this object alone returns, no other object around.
SummaryAlone(object) ==
    LET out == calculateFinancialMetrics(
                    [HandlerHeap EXCEPT !.weekly = object], Ref("weekly"))
    IN  out.heap[out.returns.ref]

\* The value is a summary of the period: the period's own currency and
\* transactions, its spend total, breakdown and subscriptions.
FullyComputed(v, period) ==
    /\ v.kind = "ref"
    /\ v.value.own = {"currency", "transactions", "totalSpend",
                      "formattedTotal", "categoryBreakdown", "subscriptions"}
    /\ v.value.currency = period.object.currency
    /\ v.value.transactions = period.object.transactions
    /\ v.value.totalSpend = NegativeTotal(period.object.transactions.items)
    /\ v.value.subscriptions.list = SubscriptionsOf(period.object)
    /\ v.value = SummaryAlone(period.object)

\* C17: when the parsed response has one period without a transaction
\* sequence and two well-formed ones, the answer is the 200 success envelope
\* in which that period is null and the other two are their fully computed
\* summaries, the same as without the malformed period beside them.
C17_MalformedPeriodIsNull ==
    (Answered /\ raw.kind = "object") =>
        \A p \in PeriodNames :
            (/\ NoSequence(raw[p])
             /\ \A q \in PeriodNames \ {p} : WellFormed(raw[q]))
            => /\ TheResponse.status = 200
               /\ TheResponse.success
               /\ TheResponse.result[p].kind = "null"
               /\ \A q \in PeriodNames \ {p} :
                      FullyComputed(TheResponse.result[q], raw[q])

\* C17 witness: answered with monthly holding an object for `transactions`
\* and weekly and yearly two different well-formed periods.
C17_Witness ==
    /\ Answered
    /\ raw.kind = "object"
    /\ raw.monthly.present
    /\ NoSequence(raw.monthly)
    /\ WellFormed(raw.weekly)
    /\ WellFormed(raw.yearly)
    /\ raw.weekly # raw.yearly
    /\ TheResponse.status = 200
    /\ TheResponse.result.monthly.kind = "null"
    /\ TheResponse.result.weekly.value.totalSpend
            # TheResponse.result.yearly.value.totalSpend

\* What a call on this period alone returns, as JSON.stringify writes it.
ValueAlone(period) ==
    IF NoSequence(period) THEN [kind |-> "null", value |-> EmptyObject]
    ELSE [kind |-> "ref", value |-> SummaryAlone(period.object)]

\* C18: the value the handler produces for a period is the value a call on
\* that period's input alone returns, whatever the other two periods hold.
C18_PeriodsIsolated ==
    (Answered /\ raw.kind = "object") =>
        \A p \in PeriodNames :
            (NoSequence(raw[p]) \/ WellFormed(raw[p]))
            => /\ TheResponse.result.present
               /\ TheResponse.result[p] = ValueAlone(raw[p])

\* C18, where the handler answers 200: each period's value is the value a
\* call on that period's input alone returns.
C18_IsolatedWhenAnswered200 ==
    (Answered /\ TheResponse.status = 200) =>
        \A p \in PeriodNames : TheResponse.result[p] = ValueAlone(raw[p])

\* the steps that go to the outside: the request's body, the file store,
\* the model
ExternalSteps == {"formData", "upload", "generateContent"}

\* The positions of the step in the history.
Positions(step) == {i \in 1..Len(events) : events[i].step = step}

FilesInForm ==
    Cardinality({i \in 1..Len(request.fileEntries) : request.fileEntries[i] = "File"})

\* C19: within one request every File of the form has been uploaded before
\* the model is called, the model is called at most once, the recalculation
\* comes after a model call that returned, and an external step that fails
\* is the last step taken: the request is answered at once with the 500
\* failure envelope carrying that step's message.
C19_StepsInOrder ==
    /\ Cardinality(Positions("generateContent")) <= 1
    /\ \A g \in Positions("generateContent") :
            /\ \A u \in Positions("upload") : u < g /\ events[u].ok
            /\ Cardinality(Positions("upload")) = FilesInForm
            /\ events[g].fileParts = FilesInForm
    /\ \A c \in Positions("recalculate") :
            \E g \in Positions("generateContent") : g < c /\ events[g].ok
    /\ \A i \in 1..Len(events) :
            (events[i].step \in ExternalSteps /\ ~events[i].ok)
            => /\ i = Len(events)
               /\ hpc = "responded"
               /\ Len(responses) = 1
               /\ responses[1].status = 500
               /\ ~responses[1].success
               /\ responses[1].error = MessageOf(events[i].step)

\* C19 witness: the second of two uploads failed; the request is answered
\* and the model was never called.
C19_Witness ==
    /\ hpc = "responded"
    /\ Len(events) = 3
    /\ events[2] = [step |-> "upload", ok |-> TRUE, fileParts |-> 0]
    /\ events[3] = [step |-> "upload", ok |-> FALSE, fileParts |-> 1]
    /\ responses[1].error = MessageOf("upload")

\* C20: the model is called only when at least one file was uploaded: a
\* form without `files` entries is answered 400 "Missing files" with no
\* upload and no model call, and every model call carries at least one
\* file part, also when entries of `files` are no File objects.
C20_ModelOnlyWithFiles ==
    /\ (Len(request.fileEntries) = 0 /\ hpc = "responded"
            /\ request.method # "OPTIONS" /\ Succeeded("formData"))
       => /\ TheResponse.status = 400
          /\ TheResponse.error = "Missing files"
          /\ ~Taken("upload")
          /\ ~Taken("generateContent")
    /\ \A g \in Positions("generateContent") : events[g].fileParts >= 1

\* C20, the part about a form without `files` entries.
C20_EmptyFormIs400 ==
    (Len(request.fileEntries) = 0 /\ hpc = "responded"
        /\ request.method # "OPTIONS" /\ Succeeded("formData"))
    => /\ TheResponse.status = 400
       /\ TheResponse.error = "Missing files"
       /\ ~Taken("upload")
       /\ ~Taken("generateContent")


\* Some step threw.
Thrown == \E i \in 1..Len(events) : ~events[i].ok

\* The status the request is to be answered with.
StatusDue ==
    IF request.method = "OPTIONS" THEN 204
    ELSE IF Thrown THEN 500
    ELSE IF Len(request.fileEntries) = 0 THEN 400
    ELSE 200

\* There is never more than one response; the handler has ended exactly
\* when there is one, and it has the status due; a preflight is answered
\* without any form parsing, upload or model call.
OneResponseOfStatusDue ==
    /\ Len(responses) <= 1
    /\ hpc = "responded" <=> Len(responses) = 1
    /\ hpc = "responded" =>
            /\ responses[1].status = StatusDue
            /\ request.method = "OPTIONS" => events = <<>>

\* C21: given that every external call returns or throws, every request
\* ends with exactly one response: 204 for a preflight (no form parsing,
\* upload or model call made), 500 when something threw, 400 for an empty
\* file list, 200 otherwise; no path ends without a response or with two.
C21_ExactlyOneResponse ==
    /\ []OneResponseOfStatusDue
    /\ <>[](hpc = "responded" /\ Len(responses) = 1)

\* C21 witness: a request with a File and a text field, answered 200 after
\* one upload and the model call.
C21_Witness ==
    /\ hpc = "responded"
    /\ Len(responses) = 1
    /\ responses[1].status = 200
    /\ Len(request.fileEntries) = 2
    /\ uploadedFiles = 1
    /\ Succeeded("generateContent")

====
